---- MODULE Spec2Model ----
(***************************************************************************)
(* A model of the hypergraph package: the POMSet order algebra             *)
(* (src/hypergraph/pomset.py) and the Hypergraph incidence layer           *)
(* (src/hypergraph/hypergraph.py).                                         *)
(*                                                                         *)
(* Conventions.  Positions are 1-based here (numpy's are 0-based);         *)
(* occurrence indices (element_index, from_index, ...) stay 0-based as in  *)
(* the source.  An operation that raises keeps every assignment it made    *)
(* before the raise; the exception's name is recorded in `exc`.            *)
(* A boolean mask whose length differs from the indexed array's raises     *)
(* IndexError (numpy >= 1.13).                                             *)
(***************************************************************************)
EXTENDS Integers, Sequences, FiniteSets, TLC

\* ------------------------------------------------------------------ bounds
\* Longest label array constructed or grown to.
MaxLen == 3
\* Largest occurrence index (element_index) passed to a method.
MaxIdx == 0
\* Number of add_node / add_edge calls made on the hypergraphs.
MaxOps == 2

\* The opaque label values a POMSet is built from.
Vals == {"a", "b", "c"}

VARIABLES p, last, q, qlast, heap, clsNode, clsEdge, inst, hlast

pvars == <<p, last>>
qvars == <<q, qlast>>
hvars == <<heap, clsNode, clsEdge, inst, hlast>>
vars == <<p, last, q, qlast, heap, clsNode, clsEdge, inst, hlast>>

\* ------------------------------------------------------- numpy helpers
Zeros(n) == [i \in 1..n |-> [j \in 1..n |-> 0]]

AllZero(order) == \A i \in 1..Len(order) : \A j \in 1..Len(order[i]) : order[i][j] = 0

SetAt(order, i, j, v) == [order EXCEPT ![i][j] = v]

Transpose(order) == [i \in 1..Len(order) |-> [j \in 1..Len(order) |-> order[j][i]]]

\* labels[mask]: the labels at the positions of `keep`, in order.
Take(labels, keep) ==
  LET F[i \in 0..Len(labels)] ==
        IF i = 0 THEN << >>
        ELSE IF i \in keep THEN Append(F[i - 1], labels[i]) ELSE F[i - 1]
  IN F[Len(labels)]

\* set(labels)
SetOf(labels) == {labels[i] : i \in 1..Len(labels)}

\* np.where(self.labels == element)[0]
Where(labels, element) == {i \in 1..Len(labels) : labels[i] = element}

\* np.where(self.labels == element)[0][element_index]; 0 stands for IndexError.
LabelIndex(labels, element, element_index) ==
  LET w == Where(labels, element)
  IN IF element_index < Cardinality(w)
     THEN CHOOSE i \in w : Cardinality({j \in w : j < i}) = element_index
     ELSE 0

\* ------------------------------------------------------------ POMSet
make_order_from_bipartition_lower_only(bipartition) ==
  LET n == Cardinality(bipartition[1]) + Cardinality(bipartition[2])
  IN [i \in 1..n |-> [j \in 1..n |->
        IF i \in bipartition[1] /\ j \in bipartition[2] THEN -1 ELSE 0]]

\* result[index, bipartition[1]] = -1; result[bipartition[1], index] = 1
make_order_from_bipartition(bipartition) ==
  LET n == Cardinality(bipartition[1]) + Cardinality(bipartition[2])
  IN [i \in 1..n |-> [j \in 1..n |->
        IF i \in bipartition[1] /\ j \in bipartition[2] THEN -1
        ELSE IF i \in bipartition[2] /\ j \in bipartition[1] THEN 1
        ELSE 0]]

\* POMSet.__init__ with order=None, bipartition=None.
POMSetDefault(labels) ==
  [labels |-> labels, size |-> Len(labels), support |-> SetOf(labels),
   cardinality |-> Cardinality(SetOf(labels)),
   order |-> Zeros(Len(labels)), is_unordered |-> TRUE]

\* POMSet.__init__ with an order matrix of matching shape.
POMSetOrderNoFlag(labels, order) ==
  [labels |-> labels, size |-> Len(labels), support |-> SetOf(labels),
   cardinality |-> Cardinality(SetOf(labels)),
   order |-> order, is_unordered |-> FALSE]

POMSetOrder(labels, order) ==
  [labels |-> labels, size |-> Len(labels), support |-> SetOf(labels),
   cardinality |-> Cardinality(SetOf(labels)),
   order |-> order, is_unordered |-> AllZero(order)]

\* POMSet.__init__ with a bipartition <<A, B>> of the positions.
POMSetBipartition(labels, bipartition) ==
  [labels |-> labels, size |-> Len(labels), support |-> SetOf(labels),
   cardinality |-> Cardinality(SetOf(labels)),
   order |-> make_order_from_bipartition(bipartition), is_unordered |-> FALSE]

multiplicity(pm, element) == Cardinality(Where(pm.labels, element))

Raise(pm, e) == [pm |-> pm, exc |-> e]
Ok(pm) == [pm |-> pm, exc |-> "ok"]

reverse_order(pm) ==
  IF ~pm.is_unordered THEN Ok([pm EXCEPT !.order = Transpose(pm.order)]) ELSE Ok(pm)

\* A query's result: the returned label array, or the exception raised.
Ret(v) == [exc |-> "ok", val |-> v]
Err(e) == [exc |-> e, val |-> << >>]

\* self.labels[mask] where mask is computed from row label_index of the order.
MaskQuery(pm, element, element_index, keepval) ==
  LET li == LabelIndex(pm.labels, element, element_index)
  IN IF li = 0 THEN Err("IndexError")
     ELSE IF li > Len(pm.order) THEN Err("IndexError")
     ELSE IF Len(pm.order) # Len(pm.labels) THEN Err("IndexError")
     ELSE Ret(Take(pm.labels, {j \in 1..Len(pm.order) : pm.order[li][j] \in keepval}))

weakly_above(pm, element, element_index) ==
  IF pm.is_unordered THEN Ret(pm.labels)
  ELSE MaskQuery(pm, element, element_index, {0, 1})

strictly_above(pm, element, element_index) ==
  IF pm.is_unordered THEN Ret(<< >>)
  ELSE MaskQuery(pm, element, element_index, {1})

weakly_below(pm, element, element_index) ==
  IF pm.is_unordered THEN Ret(pm.labels)
  ELSE MaskQuery(pm, element, element_index, {0, -1})

strictly_below(pm, element, element_index) ==
  IF pm.is_unordered THEN Ret(<< >>)
  ELSE MaskQuery(pm, element, element_index, {-1})

\* The pairwise predicates read element_index1 / element_index2, names that are
\* not bound in their bodies (the parameters are element1_index / element2_index).
weakly_greater_than(pm, e1, e2, i1, i2) ==
  IF pm.is_unordered THEN Ret(TRUE) ELSE Err("NameError")

strictly_greater_than(pm, e1, e2, i1, i2) ==
  IF pm.is_unordered THEN Ret(FALSE) ELSE Err("NameError")

weakly_less_than(pm, e1, e2, i1, i2) ==
  IF pm.is_unordered THEN Ret(TRUE) ELSE Err("NameError")

strictly_less_than(pm, e1, e2, i1, i2) ==
  IF pm.is_unordered THEN Ret(FALSE) ELSE Err("NameError")

\* _indices_strictly_above / _indices_strictly_below: an empty index array on an
\* unordered POMSet; otherwise they subscript the function np.where, a TypeError.
indices_strictly_above(pm, element, element_index) ==
  IF pm.is_unordered THEN Ret({}) ELSE Err("TypeError")

indices_strictly_below(pm, element, element_index) ==
  IF pm.is_unordered THEN Ret({}) ELSE Err("TypeError")

\* new_label_array[:-1] = self.labels : the labels broadcast into self.size slots.
BroadcastLabels(labels, n) ==
  IF Len(labels) = n THEN labels ELSE [i \in 1..n |-> labels[1]]

\* new_order[:-1][:-1] = self.order : rows 1..n-2 of the n x n zero matrix take
\* the broadcast order, which only a 1 x 1 order allows.
GrowOrder(order, n) ==
  [i \in 1..n |-> [j \in 1..n |-> IF i <= n - 2 THEN order[1][1] ELSE 0]]

add_label(pm, new_label) ==
  LET pm1 == [pm EXCEPT !.labels = Append(BroadcastLabels(pm.labels, pm.size), new_label),
                        !.size = pm.size + 1,
                        !.support = pm.support \cup {new_label},
                        !.cardinality = Cardinality(pm.support \cup {new_label})]
  IN IF Len(pm.labels) # pm.size /\ Len(pm.labels) # 1 THEN Raise(pm, "ValueError")
     ELSE IF Len(pm.order) # 1 THEN Raise(pm1, "ValueError")
     ELSE Ok([pm1 EXCEPT !.order = GrowOrder(pm.order, pm1.size)])

\* add_labels_from: labels and size are updated, then self.support.update(new_label)
\* reads a name that is not bound (the parameter is new_label_list).
add_labels_from(pm, new_label_list) ==
  Raise([pm EXCEPT !.labels = pm.labels \o new_label_list,
                   !.size = Len(pm.labels) + Len(new_label_list)],
        "NameError")

add_dependency(pm, from_label, to_label, from_index, to_index) ==
  LET f == LabelIndex(pm.labels, from_label, from_index)
      t == LabelIndex(pm.labels, to_label, to_index)
  IN IF f = 0 \/ t = 0 THEN Raise(pm, "IndexError")
     ELSE IF f > Len(pm.order) \/ t > Len(pm.order) THEN Raise(pm, "IndexError")
     ELSE LET pm1 == [pm EXCEPT !.order = SetAt(SetAt(pm.order, f, t, -1), t, f, 1)]
              above == indices_strictly_above(pm1, to_label, to_index)
              below == indices_strictly_below(pm1, from_label, from_index)
          IN IF above.exc # "ok" THEN Raise(pm1, above.exc)
             ELSE IF below.exc # "ok" THEN Raise(pm1, below.exc)
             ELSE Ok([pm1 EXCEPT
                       !.order = [i \in 1..Len(pm1.order) |-> [j \in 1..Len(pm1.order) |->
                                   IF i = f /\ j \in above.val THEN -1
                                   ELSE IF i = t /\ j \in below.val THEN 1
                                   ELSE pm1.order[i][j]]],
                       !.is_unordered = FALSE])

\* self.order[selection, :][:, selection];  self.labels[selection]
Sub(order, sel) == [i \in 1..Len(sel) |-> [j \in 1..Len(sel) |-> order[sel[i]][sel[j]]]]

Selection(li, k) == [i \in 1..((li - 1) + (IF k > li THEN k - li ELSE 0)) |->
                       IF i < li THEN i ELSE i + 1]

remove_label(pm, label_to_remove, label_index) ==
  LET li == LabelIndex(pm.labels, label_to_remove, label_index)
      k == Len(pm.order)
      sel == Selection(li, k)
      pm1 == [pm EXCEPT !.order = Sub(pm.order, sel)]
  IN IF li = 0 THEN Raise(pm, "IndexError")
     ELSE IF \E i \in 1..Len(sel) : sel[i] > k THEN Raise(pm, "IndexError")
     ELSE IF \E i \in 1..Len(sel) : sel[i] > Len(pm.labels) THEN Raise(pm1, "IndexError")
     ELSE Ok([pm1 EXCEPT !.labels = [i \in 1..Len(sel) |-> pm.labels[sel[i]]]])

remove_dependency_whole_row(pm, from_label, to_label, from_index, to_index) ==
  LET f == LabelIndex(pm.labels, from_label, from_index)
      t == LabelIndex(pm.labels, to_label, to_index)
  IN IF f = 0 \/ t = 0 THEN Raise(pm, "IndexError")
     ELSE IF f > Len(pm.order) \/ t > Len(pm.order) THEN Raise(pm, "IndexError")
     ELSE LET o == [i \in 1..Len(pm.order) |-> [j \in 1..Len(pm.order) |->
                      IF i = f \/ j = f THEN 0 ELSE pm.order[i][j]]]
          IN Ok([pm EXCEPT !.order = o,
                           !.is_unordered = IF AllZero(o) THEN TRUE ELSE pm.is_unordered])

remove_dependency(pm, from_label, to_label, from_index, to_index) ==
  LET f == LabelIndex(pm.labels, from_label, from_index)
      t == LabelIndex(pm.labels, to_label, to_index)
  IN IF f = 0 \/ t = 0 THEN Raise(pm, "IndexError")
     ELSE IF f > Len(pm.order) \/ t > Len(pm.order) THEN Raise(pm, "IndexError")
     ELSE LET o == SetAt(SetAt(pm.order, f, t, 0), t, f, 0)
          IN Ok([pm EXCEPT !.order = o,
                           !.is_unordered = IF AllZero(o) THEN TRUE ELSE pm.is_unordered])

\* ------------------------------------------- the POMSet under test: p
NoOp == [op |-> "init", e1 |-> "-", e2 |-> "-", i1 |-> 0, i2 |-> 0, exc |-> "ok",
         changed |-> FALSE]

\* changed: whether the call left the POMSet different from what it was.
Call(op, e1, e2, i1, i2, exc, changed) ==
  [op |-> op, e1 |-> e1, e2 |-> e2, i1 |-> i1, i2 |-> i2, exc |-> exc,
   changed |-> changed]

LabelSeqs == UNION {[1..n -> Vals] : n \in 0..MaxLen}

Idx == 0..MaxIdx

\* The order matrices a caller states a partial order with.
\* (antisymmetric, zero diagonal: one free entry per pair i < j).
UpperPairs(n) == {x \in (1..n) \X (1..n) : x[1] < x[2]}

AntiSym(n) ==
  {[i \in 1..n |-> [j \in 1..n |->
      IF i < j THEN u[<<i, j>>] ELSE IF j < i THEN -u[<<j, i>>] ELSE 0]]
   : u \in [UpperPairs(n) -> {-1, 0, 1}]}

\* The two-block splits <<A, B>> of the positions 1..n (a block may be empty).
Bipartitions(n) == {<<A, (1..n) \ A>> : A \in SUBSET (1..n)}

\* root, directed, res: the arguments and the result of a breadth_first_search.
NoHOp == [op |-> "init", h |-> "-", exc |-> "ok", n |-> 0,
          root |-> "-", directed |-> "-", res |-> << >>]

HIdle ==
  /\ heap = << >>
  /\ clsNode = << >>
  /\ clsEdge = << >>
  /\ inst = << >>
  /\ hlast = NoHOp

NoQuery == [op |-> "init", e1 |-> "-", e2 |-> "-", i1 |-> 0, i2 |-> 0,
            rp |-> Ret(<< >>), rq |-> Ret(<< >>)]

QIdle ==
  /\ q = POMSetDefault(<< >>)
  /\ qlast = NoQuery

InitDefault ==
  /\ \E labels \in LabelSeqs : p = POMSetDefault(labels)
  /\ last = NoOp
  /\ QIdle /\ HIdle

InitDefaultOrBipartition ==
  /\ \E labels \in LabelSeqs :
       \/ p = POMSetDefault(labels)
       \/ \E b \in Bipartitions(Len(labels)) : p = POMSetBipartition(labels, b)
  /\ last = NoOp
  /\ QIdle /\ HIdle

Init ==
  /\ \E labels \in LabelSeqs :
       \/ p = POMSetDefault(labels)
       \/ \E b \in Bipartitions(Len(labels)) : p = POMSetBipartition(labels, b)
       \/ \E o \in AntiSym(Len(labels)) : p = POMSetOrder(labels, o)
  /\ last = NoOp
  /\ QIdle /\ HIdle

\* The mutators of Next record the operation and its outcome; the arguments are
\* kept only by AddDependencyDistinct.
AddLabel ==
  /\ p.size < MaxLen
  /\ \E v \in Vals :
       LET r == add_label(p, v)
       IN /\ p' = r.pm
          /\ last' = Call("add_label", "-", "-", 0, 0, r.exc, r.pm # p)
  /\ UNCHANGED <<qvars, hvars>>

AddLabelsFrom ==
  /\ \E new_label_list \in LabelSeqs :
       /\ Len(p.labels) + Len(new_label_list) <= MaxLen
       /\ LET r == add_labels_from(p, new_label_list)
          IN /\ p' = r.pm
             /\ last' = Call("add_labels_from", "-", "-", 0, 0, r.exc, r.pm # p)
  /\ UNCHANGED <<qvars, hvars>>

AddDependency ==
  /\ \E f \in Vals, t \in Vals, fi \in Idx, ti \in Idx :
       LET r == add_dependency(p, f, t, fi, ti)
       IN /\ p' = r.pm
          /\ last' = Call("add_dependency", "-", "-", 0, 0, r.exc, r.pm # p)
  /\ UNCHANGED <<qvars, hvars>>

\* add_dependency between two distinct occurrences of the POMSet.
AddDependencyDistinct ==
  /\ \E f \in Vals, t \in Vals, fi \in Idx, ti \in Idx :
       /\ LabelIndex(p.labels, f, fi) # 0
       /\ LabelIndex(p.labels, t, ti) # 0
       /\ LabelIndex(p.labels, f, fi) # LabelIndex(p.labels, t, ti)
       /\ LET r == add_dependency(p, f, t, fi, ti)
          IN /\ p' = r.pm
             /\ last' = Call("add_dependency", f, t, fi, ti, r.exc, r.pm # p)
  /\ UNCHANGED <<qvars, hvars>>

RemoveLabel ==
  /\ \E v \in Vals, i \in Idx :
       LET r == remove_label(p, v, i)
       IN /\ p' = r.pm
          /\ last' = Call("remove_label", "-", "-", 0, 0, r.exc, r.pm # p)
  /\ UNCHANGED <<qvars, hvars>>

RemoveDependency ==
  /\ \E f \in Vals, t \in Vals, fi \in Idx, ti \in Idx :
       LET r == remove_dependency(p, f, t, fi, ti)
       IN /\ p' = r.pm
          /\ last' = Call("remove_dependency", "-", "-", 0, 0, r.exc, r.pm # p)
  /\ UNCHANGED <<qvars, hvars>>

ReverseOrder ==
  /\ LET r == reverse_order(p)
     IN /\ p' = r.pm
        /\ last' = Call("reverse_order", "-", "-", 0, 0, r.exc, r.pm # p)
  /\ UNCHANGED <<qvars, hvars>>

Next == AddLabel \/ AddDependency \/ RemoveLabel \/ RemoveDependency \/ ReverseOrder

\* Every constructor form, every mutator.
Spec == Init /\ [][Next]_vars

\* Default order or a bipartition, every mutator.
SpecDefault == InitDefaultOrBipartition /\ [][Next]_vars

\* Fully unordered, every mutator.
SpecUnordered == InitDefault /\ [][Next]_vars

\* Every constructor form, then the mutators of the labels.
NextLabels == AddLabel \/ AddLabelsFrom \/ RemoveLabel

SpecLabels == Init /\ [][NextLabels]_vars

\* Every constructor form, then remove_dependency only.
SpecRemove == Init /\ [][RemoveDependency]_vars

\* Fully unordered, then add_dependency between distinct occurrences only.
SpecDep == InitDefault /\ [][AddDependencyDistinct]_vars

\* ---------------------------------------------------------- Hypergraph
\* heap: the POMSet objects, by reference.  clsNode, clsEdge: the dictionaries
\* `node = {}` and `edge = {}` of the class body.  inst[h]: the attributes of
\* instance h itself; an instance without attributes of its own reads and
\* writes the class dictionaries.
NodeVals == {"a", "b", "c"}
EdgeVals == {"e", "f"}
\* Longest member list passed to add_edge.
MaxMembers == 1

World == [heap |-> heap, clsNode |-> clsNode, clsEdge |-> clsEdge, inst |-> inst]

\* d[k] = v on a dictionary.
Put(d, k, v) == [x \in (DOMAIN d) \cup {k} |-> IF x = k THEN v ELSE d[x]]

\* self.node / self.edge by attribute lookup: the instance's own, else the class's.
NodeOf(w, r) == IF r.own THEN r.node ELSE w.clsNode
EdgeOf(w, r) == IF r.own THEN r.edge ELSE w.clsEdge

\* self.node[k] = POMSet object pm, newly allocated.
SetNode(w, h, k, pm) ==
  LET ref == Len(w.heap) + 1
      w1 == [w EXCEPT !.heap = Append(@, pm)]
  IN IF w.inst[h].own
     THEN [w1 EXCEPT !.inst[h].node = Put(@, k, ref)]
     ELSE [w1 EXCEPT !.clsNode = Put(@, k, ref)]

SetEdge(w, h, k, pm) ==
  LET ref == Len(w.heap) + 1
      w1 == [w EXCEPT !.heap = Append(@, pm)]
  IN IF w.inst[h].own
     THEN [w1 EXCEPT !.inst[h].edge = Put(@, k, ref)]
     ELSE [w1 EXCEPT !.clsEdge = Put(@, k, ref)]

\* Hypergraph.__init__(nodes=None): no attribute is set on the instance.
NewHypergraph == [own |-> FALSE, node |-> << >>, edge |-> << >>]

add_node(w, h, new_node) == SetNode(w, h, new_node, POMSetDefault(<< >>))

\* The loop of add_edge over edge_labels, from member i on; it ends at the
\* first add_label that raises.
RECURSIVE AddEdgeLoop(_, _, _, _, _)
AddEdgeLoop(w, h, new_edge, edge_labels, i) ==
  IF i > Len(edge_labels) THEN [w |-> w, exc |-> "ok"]
  ELSE LET node == edge_labels[i]
           w1 == IF node \notin DOMAIN NodeOf(w, w.inst[h])
                 THEN add_node(w, h, node) ELSE w
           ref == NodeOf(w1, w1.inst[h])[node]
           r == add_label(w1.heap[ref], new_edge)
           w2 == [w1 EXCEPT !.heap[ref] = r.pm]
       IN IF r.exc # "ok" THEN [w |-> w2, exc |-> r.exc]
          ELSE AddEdgeLoop(w2, h, new_edge, edge_labels, i + 1)

\* add_edge(new_edge, edge_labels, edge_order); ordered = FALSE is edge_order=None.
add_edge(w, h, new_edge, edge_labels, ordered, edge_order) ==
  LET pm == IF ordered THEN POMSetOrder(edge_labels, edge_order)
            ELSE POMSetDefault(edge_labels)
  IN AddEdgeLoop(SetEdge(w, h, new_edge, pm), h, new_edge, edge_labels, 1)

\* dual: a new Hypergraph whose own node and edge are shallow copies of the
\* other's edge and node; the POMSet objects are the same objects.
dual_edge_twice(w, r) == [own |-> TRUE, node |-> EdgeOf(w, r), edge |-> EdgeOf(w, r)]

dual(w, r) == [own |-> TRUE, node |-> EdgeOf(w, r), edge |-> NodeOf(w, r)]

\* What an instance shows: its node and edge keys, and each key's POMSet.
View(w, r) ==
  [node |-> [k \in DOMAIN NodeOf(w, r) |-> w.heap[NodeOf(w, r)[k]]],
   edge |-> [k \in DOMAIN EdgeOf(w, r) |-> w.heap[EdgeOf(w, r)[k]]]]

\* The graph edges of the cliquifications, each an nx.Graph edge {n1, n2}
\* ({n1} is the self-loop on n1).
undirected_cliquification(w, r) ==
  UNION {LET labels == w.heap[EdgeOf(w, r)[e]].labels
         IN {{labels[i], labels[j]} : <<i, j>> \in
               {x \in (1..Len(labels)) \X (1..Len(labels)) : x[1] < x[2]}}
         : e \in DOMAIN EdgeOf(w, r)}

\* The occurrences (n1, n1_index) the directed cliquifications loop over.
Occurrences(pm) ==
  {<<n1, i>> \in pm.support \X (0..Len(pm.labels)) : i < multiplicity(pm, n1)}

weakly_directed_cliquification(w, r) ==
  UNION {LET pm == w.heap[EdgeOf(w, r)[e]]
         IN UNION {{{x[1], n2} : n2 \in SetOf(weakly_above(pm, x[1], x[2]).val)}
                   : x \in Occurrences(pm)}
         : e \in DOMAIN EdgeOf(w, r)}

strictly_directed_cliquification(w, r) ==
  UNION {LET pm == w.heap[EdgeOf(w, r)[e]]
         IN UNION {{{x[1], n2} : n2 \in SetOf(strictly_above(pm, x[1], x[2]).val)}
                   : x \in Occurrences(pm)}
         : e \in DOMAIN EdgeOf(w, r)}

\* Whether a query of a directed cliquification raises.
cliquification_raises(w, r) ==
  \E e \in DOMAIN EdgeOf(w, r) :
     LET pm == w.heap[EdgeOf(w, r)[e]]
     IN \E x \in Occurrences(pm) :
          \/ weakly_above(pm, x[1], x[2]).exc # "ok"
          \/ strictly_above(pm, x[1], x[2]).exc # "ok"

\* `for e in self.node[node]`: POMSet defines neither __iter__ nor __getitem__,
\* so iterating one raises TypeError, whatever it holds.
iter_pomset(pm) == Err("TypeError")

Directedness == {"undirected", "weakly", "strictly"}

\* _bfs_recursion: the nested list [next_layer, [...]] as the sequence of its
\* layers.  The loop stops at the first node of search_root_list: self.node[node]
\* is a KeyError for an unknown node, and iterating the POMSet raises.
bfs_recursion(w, r, search_root_list, directed) ==
  IF search_root_list = << >> THEN Ret(<< << >> >>)
  ELSE LET node == search_root_list[1]
       IN IF node \notin DOMAIN NodeOf(w, r) THEN Err("KeyError")
          ELSE Err(iter_pomset(w.heap[NodeOf(w, r)[node]]).exc)

breadth_first_search(w, r, root, directed) ==
  LET rec == bfs_recursion(w, r, <<root>>, directed)
  IN IF rec.exc # "ok" THEN rec ELSE Ret(<< <<root>> >> \o rec.val)

\* ------------------------------------------------- Hypergraph actions
\* The node and edge values an instance is driven with: the dual's nodes are
\* the original's edges.
NodeKeys(h) == IF h = "D" THEN EdgeVals ELSE NodeVals
EdgeKeys(h) == IF h = "D" THEN NodeVals ELSE EdgeVals

MemberSeqs(h) == UNION {[1..n -> NodeKeys(h)] : n \in 0..MaxMembers}

Commit(w) ==
  /\ heap' = w.heap
  /\ clsNode' = w.clsNode
  /\ clsEdge' = w.clsEdge
  /\ inst' = w.inst

\* n counts the add_node and add_edge calls made.
HCall(op, h, exc) ==
  [op |-> op, h |-> h, exc |-> exc,
   n |-> IF op \in {"add_node", "add_edge"} THEN hlast.n + 1 ELSE hlast.n,
   root |-> "-", directed |-> "-", res |-> << >>]

PIdle ==
  /\ p = POMSetDefault(<< >>)
  /\ last = NoOp
  /\ QIdle

\* H1 = Hypergraph()
InitGraph ==
  /\ heap = << >>
  /\ clsNode = << >>
  /\ clsEdge = << >>
  /\ inst = [h \in {"H1"} |-> NewHypergraph]
  /\ hlast = NoHOp
  /\ PIdle

AddNode(h) ==
  /\ h \in DOMAIN inst
  /\ hlast.n < MaxOps
  /\ \E n \in NodeKeys(h) : Commit(add_node(World, h, n))
  /\ hlast' = HCall("add_node", h, "ok")
  /\ UNCHANGED <<pvars, qvars>>

AddEdge(h) ==
  /\ h \in DOMAIN inst
  /\ hlast.n < MaxOps
  /\ \E e \in EdgeKeys(h), labels \in MemberSeqs(h) :
       \/ LET r == add_edge(World, h, e, labels, FALSE, << >>)
          IN Commit(r.w) /\ hlast' = HCall("add_edge", h, r.exc)
       \/ \E o \in AntiSym(Len(labels)) :
            LET r == add_edge(World, h, e, labels, TRUE, o)
            IN Commit(r.w) /\ hlast' = HCall("add_edge", h, r.exc)
  /\ UNCHANGED <<pvars, qvars>>

\* H2 = Hypergraph()
Construct ==
  /\ "H2" \notin DOMAIN inst
  /\ inst' = Put(inst, "H2", NewHypergraph)
  /\ hlast' = HCall("construct", "H2", "ok")
  /\ UNCHANGED <<heap, clsNode, clsEdge, pvars, qvars>>

\* D = H1.dual
Dual ==
  /\ "D" \notin DOMAIN inst
  /\ inst' = Put(inst, "D", dual(World, inst["H1"]))
  /\ hlast' = HCall("dual", "H1", "ok")
  /\ UNCHANGED <<heap, clsNode, clsEdge, pvars, qvars>>

NextGraph == AddNode("H1") \/ AddEdge("H1")

\* H1.breadth_first_search(root, directed)
BreadthFirstSearch ==
  /\ \E root \in NodeVals, directed \in Directedness :
       LET r == breadth_first_search(World, inst["H1"], root, directed)
       IN hlast' = [HCall("breadth_first_search", "H1", r.exc) EXCEPT
                      !.root = root, !.directed = directed, !.res = r.val]
  /\ UNCHANGED <<heap, clsNode, clsEdge, inst, pvars, qvars>>

NextBFS == NextGraph \/ BreadthFirstSearch

\* H1 built by add_node and add_edge, and searched breadth first.
SpecBFS == InitGraph /\ [][NextBFS]_vars

NextInstances ==
  \/ Construct
  \/ Dual
  \/ \E h \in {"H1", "H2", "D"} : AddNode(h) \/ AddEdge(h)

\* One Hypergraph, built by add_node and add_edge.
SpecGraph == InitGraph /\ [][NextGraph]_vars

\* H1 built by add_node and add_edge, and its dual D taken at any point.
NextDual == NextGraph \/ Dual

SpecDual == InitGraph /\ [][NextDual]_vars

\* H1, a second constructed instance H2 and the dual D of H1, all mutated.
SpecInstances == InitGraph /\ [][NextInstances]_vars


\* --------------------------------- two POMSets under the same queries: p, q
SetQueries == {"weakly_above", "strictly_above", "weakly_below", "strictly_below"}

PredQueries == {"weakly_greater_than", "strictly_greater_than",
                "weakly_less_than", "strictly_less_than"}

RunSetQuery(pm, kind, element, element_index) ==
  CASE kind = "weakly_above" -> weakly_above(pm, element, element_index)
    [] kind = "strictly_above" -> strictly_above(pm, element, element_index)
    [] kind = "weakly_below" -> weakly_below(pm, element, element_index)
    [] kind = "strictly_below" -> strictly_below(pm, element, element_index)

RunPredQuery(pm, kind, e1, e2, i1, i2) ==
  CASE kind = "weakly_greater_than" -> weakly_greater_than(pm, e1, e2, i1, i2)
    [] kind = "strictly_greater_than" -> strictly_greater_than(pm, e1, e2, i1, i2)
    [] kind = "weakly_less_than" -> weakly_less_than(pm, e1, e2, i1, i2)
    [] kind = "strictly_less_than" -> strictly_less_than(pm, e1, e2, i1, i2)

\* p = POMSet(labels), q = POMSet(labels, order) with the all-zero order.
InitRoundTrip ==
  /\ \E labels \in LabelSeqs :
       /\ p = POMSetDefault(labels)
       /\ q = POMSetOrder(labels, Zeros(Len(labels)))
  /\ last = NoOp
  /\ qlast = NoQuery
  /\ HIdle

QuerySet ==
  /\ \E kind \in SetQueries, e \in Vals, i \in Idx :
       qlast' = [op |-> kind, e1 |-> e, e2 |-> "-", i1 |-> i, i2 |-> 0,
                 rp |-> RunSetQuery(p, kind, e, i), rq |-> RunSetQuery(q, kind, e, i)]
  /\ UNCHANGED <<p, last, q, hvars>>

QueryPred ==
  /\ \E kind \in PredQueries, e1 \in Vals, e2 \in Vals, i1 \in Idx, i2 \in Idx :
       qlast' = [op |-> kind, e1 |-> e1, e2 |-> e2, i1 |-> i1, i2 |-> i2,
                 rp |-> RunPredQuery(p, kind, e1, e2, i1, i2),
                 rq |-> RunPredQuery(q, kind, e1, e2, i1, i2)]
  /\ UNCHANGED <<p, last, q, hvars>>

NextRoundTrip == QuerySet \/ QueryPred

\* The same labels built with no order and with the all-zero order, queried.
SpecRT == InitRoundTrip /\ [][NextRoundTrip]_vars

\* p = POMSet(labels, bipartition=[A, B]), q = POMSet(labels, order) with the
\* order matrix that puts exactly the positions of A below those of B.
InitBipartition ==
  /\ \E labels \in LabelSeqs : \E b \in Bipartitions(Len(labels)) :
       /\ p = POMSetBipartition(labels, b)
       /\ \E o \in AntiSym(Len(labels)) :
            /\ \A i, j \in 1..Len(labels) :
                 o[i][j] = -1 <=> (i \in b[1] /\ j \in b[2])
            /\ q = POMSetOrder(labels, o)
  /\ last = NoOp
  /\ qlast = NoQuery
  /\ HIdle

\* The same labels built from a bipartition and from its order matrix, queried.
SpecBP == InitBipartition /\ [][QuerySet]_vars


\* ------------------------------------------------------------ claims
Recorded(pm, i, j) == pm.order[i][j]

\* C1 (transitive closure).  From a fully unordered POMSet, after any sequence
\* of add_dependency calls between distinct occurrences: whenever i is recorded
\* above j and j is recorded above k, i is recorded above k.
C1_TransitiveClosure ==
  \A i, j, k \in 1..Len(p.order) :
     (Recorded(p, i, j) = 1 /\ Recorded(p, j, k) = 1) => Recorded(p, i, k) = 1

\* C2 (antisymmetry).  In every state reached from the default order or from a
\* bipartition by the five mutators: order[i,j] = 1 iff order[j,i] = -1, and
\* the diagonal is all unrelated.
C2_Antisymmetry ==
  \A i, j \in 1..Len(p.order) :
     /\ (Recorded(p, i, j) = 1 <=> Recorded(p, j, i) = -1)
     /\ Recorded(p, i, i) = 0

H1 == inst["H1"]

\* C3 (incidence consistency).  In every state reached by add_node and
\* add_edge calls on one Hypergraph: every member n of every edge e is a key
\* of the node mapping, and e is among node[n]'s labels.
C3_IncidenceConsistency ==
  \A e \in DOMAIN EdgeOf(World, H1) :
     \A n \in SetOf(heap[EdgeOf(World, H1)[e]].labels) :
        /\ n \in DOMAIN NodeOf(World, H1)
        /\ e \in SetOf(heap[NodeOf(World, H1)[n]].labels)

Mutates(c) == c.op \in {"add_node", "add_edge"}

\* C4 (the dual does not alias).  Once D = H1.dual exists, no add_node or
\* add_edge on D changes what H1 shows (its node keys, its edge keys, the
\* labels and order of each of its POMSets), and none on H1 changes what D
\* shows.
C4_DualDoesNotAlias ==
  [][("D" \in DOMAIN inst /\ Mutates(hlast')) =>
        /\ hlast'.h = "D" => View(World, H1)' = View(World, H1)
        /\ hlast'.h = "H1" => View(World, inst["D"])' = View(World, inst["D"])]_vars

\* C5 (instance-owned mappings).  With H1 and H2 both made by the constructor,
\* no add_node or add_edge on H1 changes what H2 shows, and H2 shows empty
\* node and edge mappings when it has just been constructed.
C5_InstanceOwned ==
  [][/\ ("H2" \in DOMAIN inst /\ Mutates(hlast') /\ hlast'.h = "H1") =>
           View(World, inst["H2"])' = View(World, inst["H2"])
     /\ hlast'.op = "construct" =>
           View(World, inst["H2"])' = [node |-> << >>, edge |-> << >>]]_vars

\* C6 (cliquification monotonicity).  For every hypergraph built by add_edge:
\* the strictly directed graph edges are among the weakly directed ones, which
\* are among the undirected ones.
C6_CliquificationMonotone ==
  /\ strictly_directed_cliquification(World, H1) \subseteq
       weakly_directed_cliquification(World, H1)
  /\ weakly_directed_cliquification(World, H1) \subseteq
       undirected_cliquification(World, H1)

\* C7 (dual involution).  For every instance, the dual of its dual shows the
\* same node keys and edge keys, and under every key a POMSet with the same
\* labels and the same order.
C7_DualInvolution ==
  \A h \in DOMAIN inst :
     View(World, dual(World, dual(World, inst[h]))) = View(World, inst[h])

\* D = H1.dual has just been taken of a hypergraph with an edge and a node,
\* and the dual of D shows what H1 shows.
C7_Witness ==
  /\ hlast.op = "dual" /\ "D" \in DOMAIN inst
  /\ DOMAIN EdgeOf(World, H1) # {} /\ DOMAIN NodeOf(World, H1) # {}
  /\ View(World, inst["D"]).node = View(World, H1).edge
  /\ View(World, dual(World, inst["D"])) = View(World, H1)

\* C8 (direction of the strict queries).  After add_dependency(x, y) has
\* asserted x strictly below y, y is returned by strictly_above(x) and x by
\* strictly_below(y), and not by the opposite query; for the chain built by
\* add_dependency(a, b) and add_dependency(b, c), strictly_above(a) = {b, c},
\* strictly_above(b) = {c} and strictly_below(c) = {a, b}.
C8_StrictDirection ==
  /\ (last.op = "add_dependency" /\ last.exc = "ok") =>
       /\ last.e2 \in SetOf(strictly_above(p, last.e1, last.i1).val)
       /\ last.e1 \in SetOf(strictly_below(p, last.e2, last.i2).val)
       /\ last.e1 # last.e2 =>
            /\ last.e2 \notin SetOf(strictly_below(p, last.e1, last.i1).val)
            /\ last.e1 \notin SetOf(strictly_above(p, last.e2, last.i2).val)
  /\ (p.labels = <<"a", "b", "c">> /\ Recorded(p, 1, 2) = -1 /\ Recorded(p, 2, 3) = -1) =>
       /\ SetOf(strictly_above(p, "a", 0).val) = {"b", "c"}
       /\ SetOf(strictly_above(p, "b", 0).val) = {"c"}
       /\ SetOf(strictly_below(p, "c", 0).val) = {"a", "b"}

\* The closed chain a < b < c over the labels a, b, c.
ChainABC ==
  << <<0, -1, -1>>, <<1, 0, -1>>, <<1, 1, 0>> >>

\* C9 (remove_dependency retracts only the named pair).  In every reachable
\* state and for every pair of occurrences named: a remove_dependency that
\* returns leaves the two occurrences unrelated in both directions and changes
\* neither the labels nor the relation of any other ordered pair; on the chain
\* a < b < c, remove_dependency(a, b) leaves a and b unrelated, a and b still
\* recorded below c, and b among weakly_above(a).
C9_RemoveDependencyFrame ==
  /\ \A f \in Vals, t \in Vals, fi \in Idx, ti \in Idx :
       LET r == remove_dependency(p, f, t, fi, ti)
           pf == LabelIndex(p.labels, f, fi)
           pt == LabelIndex(p.labels, t, ti)
       IN r.exc = "ok" =>
            /\ r.pm.labels = p.labels
            /\ Len(r.pm.order) = Len(p.order)
            /\ Recorded(r.pm, pf, pt) = 0
            /\ Recorded(r.pm, pt, pf) = 0
            /\ \A i, j \in 1..Len(p.order) :
                 {i, j} # {pf, pt} => Recorded(r.pm, i, j) = Recorded(p, i, j)
  /\ (p.labels = <<"a", "b", "c">> /\ p.order = ChainABC /\ ~p.is_unordered) =>
       LET r == remove_dependency(p, "a", "b", 0, 0)
       IN /\ r.exc = "ok"
          /\ Recorded(r.pm, 1, 2) = 0 /\ Recorded(r.pm, 2, 1) = 0
          /\ Recorded(r.pm, 1, 3) = -1 /\ Recorded(r.pm, 2, 3) = -1
          /\ weakly_above(r.pm, "a", 0).exc = "ok"
          /\ "b" \in SetOf(weakly_above(r.pm, "a", 0).val)

\* A remove_dependency has returned and changed the order, leaving a and b
\* unrelated and both below c: it retracted the pair (a, b) of a chain.
C9_Witness ==
  /\ last.op = "remove_dependency" /\ last.exc = "ok" /\ last.changed
  /\ p.labels = <<"a", "b", "c">>
  /\ p.order = << <<0, 0, -1>>, <<0, 0, -1>>, <<1, 1, 0>> >>
  /\ "b" \in SetOf(weakly_above(p, "a", 0).val)

\* C10 (unordered round trip).  A POMSet built with no order and one built
\* with the all-zero order matrix answer every query alike, for every element
\* and occurrence index: weakly_above / weakly_below return all the labels,
\* strictly_above / strictly_below return nothing, the weak predicates are
\* true and the strict predicates false.
C10_UnorderedRoundTrip ==
  qlast.op # "init" =>
    /\ qlast.rp = qlast.rq
    /\ qlast.op \in {"weakly_above", "weakly_below"} => qlast.rq = Ret(q.labels)
    /\ qlast.op \in {"strictly_above", "strictly_below"} => qlast.rq = Ret(<< >>)
    /\ qlast.op \in {"weakly_greater_than", "weakly_less_than"} => qlast.rq = Ret(TRUE)
    /\ qlast.op \in {"strictly_greater_than", "strictly_less_than"} => qlast.rq = Ret(FALSE)

\* weakly_greater_than has been asked of two POMSets of three labels, one built
\* with the all-zero order, and both said true.
C10_Witness ==
  /\ qlast.op = "weakly_greater_than"
  /\ Len(q.labels) = 3 /\ q.order = Zeros(3) /\ p.labels = q.labels
  /\ qlast.rp = Ret(TRUE) /\ qlast.rq = Ret(TRUE)

\* C11 (bipartition round trip).  For every label sequence and every
\* bipartition of its positions, a block possibly empty: the POMSet built from
\* the bipartition and the one built from the order matrix that puts A below B
\* return the same weakly_above and strictly_above results for every
\* occurrence of every label.
C11_BipartitionRoundTrip ==
  /\ (/\ qlast.op \in {"weakly_above", "strictly_above"}
      /\ LabelIndex(p.labels, qlast.e1, qlast.i1) # 0) =>
        /\ qlast.rp.exc = "ok"
        /\ qlast.rp = qlast.rq
  /\ \A x \in Occurrences(p) :
       /\ weakly_above(p, x[1], x[2]).exc = "ok"
       /\ weakly_above(p, x[1], x[2]) = weakly_above(q, x[1], x[2])
       /\ strictly_above(p, x[1], x[2]) = strictly_above(q, x[1], x[2])

\* strictly_above has been asked of an occurrence of a three-label POMSet
\* built from a bipartition with two non-empty blocks, and both forms returned
\* the same non-empty array.
C11_Witness ==
  /\ qlast.op = "strictly_above"
  /\ Len(p.labels) = 3 /\ ~AllZero(p.order) /\ ~q.is_unordered
  /\ qlast.rp.exc = "ok" /\ qlast.rp.val # << >>
  /\ qlast.rp = qlast.rq

\* C12 (out of range).  Every operation addressed by (value, occurrence
\* index) raises the out-of-range error (IndexError) when the index is not
\* below the value's multiplicity, a value that does not occur included, on
\* ordered and unordered POMSets alike, and then leaves labels and order as
\* they were.
C12_OutOfRange ==
  /\ (qlast.op \in SetQueries /\ qlast.i1 >= multiplicity(p, qlast.e1)) =>
        qlast.rp.exc = "IndexError"
  /\ \A v \in Vals, i \in 0..Len(p.labels) :
       i >= multiplicity(p, v) =>
         /\ remove_label(p, v, i) = Raise(p, "IndexError")
         /\ \A t \in Vals, ti \in 0..Len(p.labels) :
              /\ add_dependency(p, v, t, i, ti) = Raise(p, "IndexError")
              /\ add_dependency(p, t, v, ti, i) = Raise(p, "IndexError")
              /\ remove_dependency(p, v, t, i, ti) = Raise(p, "IndexError")
              /\ remove_dependency(p, t, v, ti, i) = Raise(p, "IndexError")

\* The successors of node n in H1 that a layer is to hold: over every incident
\* edge, and every occurrence of n in it.
IncidentEdges(n) ==
  IF n \in DOMAIN NodeOf(World, H1)
  THEN SetOf(heap[NodeOf(World, H1)[n]].labels) \cap DOMAIN EdgeOf(World, H1)
  ELSE {}

SuccessorsIn(e, n, directed) ==
  LET pm == heap[EdgeOf(World, H1)[e]]
  IN IF directed = "undirected" THEN SetOf(pm.labels)
     ELSE UNION {SetOf((IF directed = "weakly" THEN weakly_above(pm, n, i)
                        ELSE strictly_above(pm, n, i)).val)
                 : i \in 0..(multiplicity(pm, n) - 1)}

LayerAfter(layer, directed) ==
  UNION {SuccessorsIn(e, n, directed) : <<e, n>> \in
           {x \in EdgeVals \X layer : x[1] \in IncidentEdges(x[2])}}

\* C13 (BFS layering).  breadth_first_search(root, directed) on a node root
\* returns layers:
\* layer 0 is {root}, and each next layer is, as a set, the union over the
\* nodes n of the layer before of neighbors(n), weak_successors(n) or
\* strict_successors(n) according to directed.
C13_BFSLayering ==
  (hlast.op = "breadth_first_search" /\ hlast.root \in DOMAIN NodeOf(World, H1)) =>
    /\ hlast.exc = "ok"
    /\ Len(hlast.res) >= 1
    /\ SetOf(hlast.res[1]) = {hlast.root}
    /\ \A k \in 1..(Len(hlast.res) - 1) :
         SetOf(hlast.res[k + 1]) = LayerAfter(SetOf(hlast.res[k]), hlast.directed)

\* The recorded relation is transitively closed.
Closed(order) ==
  \A i, j, k \in 1..Len(order) :
     /\ (order[i][j] = -1 /\ order[j][k] = -1) => order[i][k] = -1
     /\ (order[i][j] = 1 /\ order[j][k] = 1) => order[i][k] = 1

\* C14 (closure survives removal).  A remove_dependency that returns on a
\* transitively closed order leaves a transitively closed order: a pair still
\* supported by another chain stays recorded (a < c while a < b and b < c
\* remain).
C14_ClosureSurvivesRemoval ==
  [][(last'.op = "remove_dependency" /\ last'.exc = "ok" /\ Closed(p.order)) =>
        Closed(p'.order)]_vars

\* C15 (the is_unordered flag is exact).  In every reachable state the flag
\* is true if and only if every entry of the order is unrelated.
C15_IsUnorderedExact ==
  p.is_unordered <=> AllZero(p.order)

\* C16 (derived attributes track the labels).  In every state reached by
\* add_label, add_labels_from and remove_label: size is the number of label
\* occurrences, support the set of distinct labels, cardinality the size of
\* support, and the order is square with side size.
C16_DerivedAttributes ==
  /\ p.size = Len(p.labels)
  /\ p.support = SetOf(p.labels)
  /\ p.cardinality = Cardinality(p.support)
  /\ Len(p.order) = p.size
  /\ \A i \in 1..Len(p.order) : Len(p.order[i]) = p.size

\* C17 (add_label only appends).  On a POMSet of any size n and any order,
\* add_label(v) returns, keeps the first n labels and the relation of every
\* pair of the first n occurrences, appends v as occurrence n, and records the
\* new occurrence as unrelated to every occurrence.
C17_AddLabelAppends ==
  [][(last'.op = "add_label" /\ Len(p.order) = Len(p.labels)) =>
        LET n == Len(p.labels)
        IN /\ last'.exc = "ok"
           /\ \E v \in Vals : p'.labels = Append(p.labels, v)
           /\ Len(p'.order) = n + 1
           /\ \A i, j \in 1..n : Recorded(p', i, j) = Recorded(p, i, j)
           /\ \A i \in 1..(n + 1) :
                Recorded(p', i, n + 1) = 0 /\ Recorded(p', n + 1, i) = 0]_vars

\* C18 (converse incidence, with multiplicity).  In every state reached by
\* add_node and add_edge calls on one Hypergraph: every label e of node[n] is
\* a key of the edge mapping, n is a member of edge[e], and e occurs in
\* node[n] as many times as n occurs in edge[e].
C18_ConverseIncidence ==
  \A n \in DOMAIN NodeOf(World, H1) :
     \A e \in SetOf(heap[NodeOf(World, H1)[n]].labels) :
        /\ e \in DOMAIN EdgeOf(World, H1)
        /\ n \in SetOf(heap[EdgeOf(World, H1)[e]].labels)
        /\ multiplicity(heap[NodeOf(World, H1)[n]], e) =
             multiplicity(heap[EdgeOf(World, H1)[e]], n)

\* The nodes reached from the nodes of S in at most k further steps.
RECURSIVE ReachWithin(_, _, _)
ReachWithin(S, directed, k) ==
  IF k = 0 THEN S ELSE ReachWithin(S \cup LayerAfter(S, directed), directed, k - 1)

\* The nodes reached from n in one or more strict-successor steps.
StrictlyReachable(n) ==
  ReachWithin(LayerAfter({n}, "strictly"), "strictly", Cardinality(NodeVals))

NoStrictCycleFrom(root) ==
  \A n \in {root} \cup StrictlyReachable(root) : n \notin StrictlyReachable(n)

\* C19 (BFS termination).  breadth_first_search(root, 'strictly') returns,
\* its last layer empty, when no node reached from root by strict-successor
\* steps reaches itself again; breadth_first_search(root, 'undirected')
\* returns, its last layer empty, when root has no incident edge.
C19_BFSTerminates ==
  (/\ hlast.op = "breadth_first_search"
   /\ hlast.root \in DOMAIN NodeOf(World, H1)
   /\ \/ hlast.directed = "strictly" /\ NoStrictCycleFrom(hlast.root)
      \/ hlast.directed = "undirected" /\ IncidentEdges(hlast.root) = {}) =>
     /\ hlast.exc = "ok"
     /\ Len(hlast.res) >= 1
     /\ hlast.res[Len(hlast.res)] = << >>

====
